---------------------------- MODULE Spec2Model ----------------------------
(***************************************************************************)
(* A model of game_server::cache_provider (C++/src/CacheProvider.cpp): the *)
(* id, owner, updatable and location indices, the recursive mutex with its *)
(* lock_holder tag, the update scopes and the queries; and of               *)
(* game_server::processor_node (C++/src/ProcessorNode.cpp): the index of   *)
(* authenticated clients, the identity stored on each connection, the      *)
(* request dispatch and the broker registration, with the dispatcher of    *)
(* NodeInstance (Game Server/NodeInstance.h).                              *)
(*                                                                         *)
(* Objects are pointers 1..Len(Obj) into a fixed table of base_obj/map_obj *)
(* values; NULL is nullptr.  Coordinates are chosen so that no expression  *)
(* of the code goes below zero (the Bounds start at 2, the radius is 1),   *)
(* which makes the model independent of the signedness of coord.           *)
(***************************************************************************)
EXTENDS Integers, Sequences, FiniteSets, TLC

\* ------------------------------------------------------------------ bounds
NumThreads == 2
MaxDepth == 2
MaxOwnerList == 2
MaxDim == 3
NumConns == 2
NumIds == 2
MaxClientList == 2

\* --------------------------------------------------------------- constants
NULL == 0
NoThread == 0
THROW == -1

\* set_bounds(start_x, start_y, width, height, los_radius)
this_start_x == 2
this_start_y == 2
this_width == 3
this_height == 3
this_los_radius == 1
this_end_x == this_start_x + this_width
this_end_y == this_start_y + this_height

Threads == 1..NumThreads

\* The objects callers hand to the cache.  Every id is distinct.
\*   1: 2x2 at (2,2), owner 1, updatable
\*   2: 1x1 at (3,3), owner 2              (inside the rectangle of 1)
\*   3: 1x1 at (4,4), owner 0, updatable   (unowned; last row and column)
\*   4: not positioned, owner 2, updatable
Obj ==
  << [id |-> 11, owner |-> 1, positioned |-> TRUE,  updatable |-> TRUE,
      x |-> 2, y |-> 2, width |-> 2, height |-> 2],
     [id |-> 12, owner |-> 2, positioned |-> TRUE,  updatable |-> FALSE,
      x |-> 3, y |-> 3, width |-> 1, height |-> 1],
     [id |-> 13, owner |-> 0, positioned |-> TRUE,  updatable |-> TRUE,
      x |-> 4, y |-> 4, width |-> 1, height |-> 1],
     [id |-> 14, owner |-> 2, positioned |-> FALSE, updatable |-> TRUE,
      x |-> 0, y |-> 0, width |-> 0, height |-> 0] >>

Objects == 1..Len(Obj)
Owners == {Obj[o].owner : o \in Objects}
Cells == (this_start_x..(this_end_x - 1)) \X (this_start_y..(this_end_y - 1))

\* The cells of a map_obj's rectangle (the double loop of lines 67-68).
Rect(object) ==
  (Obj[object].x..(Obj[object].x + Obj[object].width - 1))
    \X (Obj[object].y..(Obj[object].y + Obj[object].height - 1))

VARIABLES
  id_idx,         \* id -> object, domain = the keys of the map
  owner_idx,      \* owner -> sequence of objects, domain = the keys of the map
  updatable_idx,  \* sequence of objects
  loc_idx,        \* cell -> object or NULL
  mtx,            \* the recursive mutex: [owner, count]
  lock_holder,    \* thread id written by lock()/unlock()
  scopes,         \* per thread: begin_update calls not yet ended
  pc,             \* per thread: "idle", or "query" inside a query's unique_lock
  dirty,          \* history: an open update scope has changed the indices
  order,          \* history: the updatable objects held, in the order added
  ret,            \* the last call: [op, thread, arg, val]
  area_id,                \* processor_node::area_id, 0 on a node without broker
  started,                \* how far start() has run: "no", "server", "done"
  authenticated_clients,  \* id -> sequence of connections, domain = the keys
  conn_state,             \* connection -> the id stored in tcp_connection::state
  status,                 \* connection -> "new", "live" or "closed"
  clients_lock,           \* the thread owning the std::mutex clients_lock
  work,                   \* per thread: the index call it is in and its position
  crashed                 \* undefined behaviour has ended the process

vars == <<id_idx, owner_idx, updatable_idx, loc_idx, mtx, lock_holder,
          scopes, pc, dirty, order, ret,
          area_id, started, authenticated_clients, conn_state, status,
          clients_lock, work, crashed>>

\* The cache's variables and the router's.
cvars == <<id_idx, owner_idx, updatable_idx, loc_idx, mtx, lock_holder,
           scopes, pc, dirty, order>>
rvars == <<area_id, started, authenticated_clients, conn_state, status,
           clients_lock, work, crashed>>

idx == <<id_idx, owner_idx, updatable_idx, loc_idx>>

NoCall == [op |-> "none", thread |-> NoThread, arg |-> <<>>, val |-> NULL]

\* -------------------------------------------------------- container helpers
MapPut(m, k, v) == [j \in (DOMAIN m) \cup {k} |-> IF j = k THEN v ELSE m[j]]
MapErase(m, k) == [j \in (DOMAIN m) \ {k} |-> m[j]]

\* std::find: the first position holding v, 0 when there is none.
Find(s, v) ==
  IF \E i \in 1..Len(s) : s[i] = v
  THEN CHOOSE i \in 1..Len(s) : s[i] = v /\ \A j \in 1..(i - 1) : s[j] # v
  ELSE 0

\* vector::erase(iterator)
EraseAt(s, i) == [j \in 1..(Len(s) - 1) |-> IF j < i THEN s[j] ELSE s[j + 1]]

\* find + erase when found (lines 84-86, 91-93)
EraseFirst(s, v) == IF Find(s, v) = 0 THEN s ELSE EraseAt(s, Find(s, v))

\* get_loc(x, y): loc_idx[x][y]; a cell never written holds nullptr.
get_loc(x, y) == IF <<x, y>> \in DOMAIN loc_idx THEN loc_idx[<<x, y>>] ELSE NULL

is_root_object(obj, x, y) == Obj[obj].x = x /\ Obj[obj].y = y

\* ----------------------------------------------------------- the internals
\* Whether the cache holds the object: the registry maps its id to it.
Present(object) ==
  Obj[object].id \in DOMAIN id_idx /\ id_idx[Obj[object].id] = object

OwnerList(owner) == IF owner \in DOMAIN owner_idx THEN owner_idx[owner] ELSE <<>>

\* add_internal(base_obj*): the three indices after the call.
add_internal_base(object) ==
  [id_idx |-> MapPut(id_idx, Obj[object].id, object),
   owner_idx |-> MapPut(owner_idx, Obj[object].owner,
                        Append(OwnerList(Obj[object].owner), object)),
   updatable_idx |-> IF Obj[object].updatable
                     THEN Append(updatable_idx, object)
                     ELSE updatable_idx]

\* The scan order of the double loops: x outer, y inner.
Before(c, d) == c[1] < d[1] \/ (c[1] = d[1] /\ c[2] < d[2])

\* A single check-and-write loop: the cells scanned before the first occupied
\* one are written before the call fails.
add_internal_map_partial(object) ==
  LET occupied == {c \in Rect(object) : get_loc(c[1], c[2]) # NULL}
      written == {c \in Rect(object) : \A d \in occupied : Before(c, d)}
  IN [ok |-> occupied = {},
      loc_idx |-> [c \in DOMAIN loc_idx |->
                     IF c \in written THEN object ELSE loc_idx[c]]]

\* add_internal(map_obj*): the first double loop returns false at an occupied
\* cell, the second writes every cell of the rectangle.
add_internal_map(object) ==
  LET free == \A c \in Rect(object) : get_loc(c[1], c[2]) = NULL
  IN [ok |-> free,
      loc_idx |-> IF free
                  THEN [c \in DOMAIN loc_idx |->
                          IF c \in Rect(object) THEN object ELSE loc_idx[c]]
                  ELSE loc_idx]

\* remove_internal(base_obj*): owner_idx[owner] creates the owner's list when
\* the map has none.
remove_internal_base(object) ==
  [id_idx |-> MapErase(id_idx, Obj[object].id),
   owner_idx |-> IF Obj[object].owner # 0
                 THEN MapPut(owner_idx, Obj[object].owner,
                             EraseFirst(OwnerList(Obj[object].owner), object))
                 ELSE owner_idx,
   updatable_idx |-> IF Obj[object].updatable
                     THEN EraseFirst(updatable_idx, object)
                     ELSE updatable_idx]

\* remove_internal(map_obj*): every cell of the rectangle is set to nullptr.
remove_internal_map(object) ==
  [c \in DOMAIN loc_idx |-> IF c \in Rect(object) THEN NULL ELSE loc_idx[c]]

\* ------------------------------------------------------------ the mutex
\* recursive_mutex::lock() returns when the mutex is free or owned by t.
CanLock(t) == mtx.owner \in {NoThread, t}
Locked(t) == [owner |-> t, count |-> mtx.count + 1]
Unlocked(t) ==
  IF mtx.count = 1 THEN [owner |-> NoThread, count |-> 0]
  ELSE [owner |-> mtx.owner, count |-> mtx.count - 1]

\* ------------------------------------------------------- the router's state
\* The area a node with a broker is constructed with (area_id != 0).
AreaId == 2

\* The connections clients open, and the one start() adopts for the broker.
Conns == 1..NumConns
BrokerConn == NumConns + 1
AllConns == Conns \cup {BrokerConn}

\* The identities a handler can leave in authenticated_id; 0 is "none".
Ids == 1..NumIds

\* The thread that calls start(); the workers are Threads.
MainThread == NumThreads + 1
NoWork == [pc |-> "idle", op |-> "none", id |-> 0, conn |-> NULL, raced |-> FALSE]

\* The members of a constructed processor_node, start() not yet called.
InitNode ==
  /\ started = "no"
  /\ authenticated_clients = <<>>
  /\ conn_state = [c \in AllConns |-> 0]
  /\ status = [c \in AllConns |-> "new"]
  /\ clients_lock = NoThread
  /\ work = [t \in Threads \cup {MainThread} |-> NoWork]
  /\ crashed = FALSE

\* ---------------------------------------------------------------- actions
\* The members of a constructed cache_provider.
InitCache ==
  /\ id_idx = <<>>
  /\ owner_idx = <<>>
  /\ updatable_idx = <<>>
  /\ loc_idx = [c \in Cells |-> NULL]
  /\ mtx = [owner |-> NoThread, count |-> 0]
  /\ lock_holder = NoThread
  /\ scopes = [t \in Threads |-> 0]
  /\ pc = [t \in Threads |-> "idle"]
  /\ dirty = FALSE
  /\ order = <<>>
  /\ ret = NoCall

\* A cache next to a node constructed without a broker.
Init ==
  /\ InitCache
  /\ area_id = 0
  /\ InitNode

\* begin_update: lock() = mtx.lock(); lock_holder = this thread.
BeginUpdate(t) ==
  /\ pc[t] = "idle"
  /\ scopes[t] < MaxDepth
  /\ CanLock(t)
  /\ mtx' = Locked(t)
  /\ lock_holder' = t
  /\ scopes' = [scopes EXCEPT ![t] = @ + 1]
  /\ ret' = NoCall
  /\ UNCHANGED <<id_idx, owner_idx, updatable_idx, loc_idx, pc, dirty, order>>
  /\ UNCHANGED rvars

\* end_update: unlock() = lock_holder = thread::id(); mtx.unlock().
EndUpdate(t) ==
  /\ pc[t] = "idle"
  /\ scopes[t] > 0
  /\ lock_holder' = NoThread
  /\ mtx' = Unlocked(t)
  /\ scopes' = [scopes EXCEPT ![t] = @ - 1]
  /\ dirty' = IF scopes[t] = 1 THEN FALSE ELSE dirty
  /\ ret' = NoCall
  /\ UNCHANGED <<id_idx, owner_idx, updatable_idx, loc_idx, pc, order>>
  /\ UNCHANGED rvars

\* addObject: the placement first, then the registry, owner and updatable
\* indices; a refused placement leaves everything as it was.
AddObject(t, object) ==
  /\ pc[t] = "idle"
  /\ scopes[t] > 0
  /\ ~Present(object)
  /\ Len(OwnerList(Obj[object].owner)) < MaxOwnerList
  /\ LET placed == IF Obj[object].positioned
                    THEN add_internal_map(object)
                    ELSE [ok |-> TRUE, loc_idx |-> loc_idx]
         base == add_internal_base(object)
     IN /\ loc_idx' = placed.loc_idx
        /\ id_idx' = IF placed.ok THEN base.id_idx ELSE id_idx
        /\ owner_idx' = IF placed.ok THEN base.owner_idx ELSE owner_idx
        /\ updatable_idx' = IF placed.ok THEN base.updatable_idx ELSE updatable_idx
        /\ order' = IF placed.ok /\ Obj[object].updatable
                    THEN Append(order, object)
                    ELSE order
        /\ ret' = [op |-> "add", thread |-> t, arg |-> object, val |-> placed.ok]
  /\ dirty' = (dirty \/ idx' # idx)
  /\ UNCHANGED <<mtx, lock_holder, scopes, pc>>
  /\ UNCHANGED rvars

\* removeObject: the registry, owner and updatable indices, then the cells.
RemoveObject(t, object) ==
  /\ pc[t] = "idle"
  /\ scopes[t] > 0
  /\ LET base == remove_internal_base(object)
     IN /\ id_idx' = base.id_idx
        /\ owner_idx' = base.owner_idx
        /\ updatable_idx' = base.updatable_idx
  /\ loc_idx' = IF Obj[object].positioned THEN remove_internal_map(object) ELSE loc_idx
  /\ order' = IF Present(object)
               THEN SelectSeq(order, LAMBDA o : o # object)
               ELSE order
  /\ ret' = [op |-> "remove", thread |-> t, arg |-> object, val |-> Present(object)]
  /\ dirty' = (dirty \/ idx' # idx)
  /\ UNCHANGED <<mtx, lock_holder, scopes, pc>>
  /\ UNCHANGED rvars

\* get_next_updatable(position)
get_next_updatable(t, position) ==
  IF lock_holder # t THEN THROW
  ELSE IF position < Len(updatable_idx) THEN updatable_idx[position + 1] ELSE NULL

GetNextUpdatable(t, position) ==
  /\ pc[t] = "idle"
  /\ ret' = [op |-> "get_next_updatable", thread |-> t, arg |-> position,
             val |-> get_next_updatable(t, position)]
  /\ UNCHANGED <<id_idx, owner_idx, updatable_idx, loc_idx, mtx, lock_holder,
                 scopes, pc, dirty, order>>
  /\ UNCHANGED rvars

\* A query that takes the mutex whoever owns it (the unique_lock left out).
QueryLockUnguarded(t) ==
  /\ pc[t] = "idle"
  /\ mtx' = Locked(t)
  /\ pc' = [pc EXCEPT ![t] = "query"]
  /\ ret' = NoCall
  /\ UNCHANGED <<id_idx, owner_idx, updatable_idx, loc_idx, lock_holder,
                 scopes, dirty, order>>
  /\ UNCHANGED rvars

\* A query's unique_lock<recursive_mutex> lck(this->mtx): the caller waits
\* for the mutex; lock_holder is not written.
QueryLock(t) ==
  /\ pc[t] = "idle"
  /\ CanLock(t)
  /\ mtx' = Locked(t)
  /\ pc' = [pc EXCEPT ![t] = "query"]
  /\ ret' = NoCall
  /\ UNCHANGED <<id_idx, owner_idx, updatable_idx, loc_idx, lock_holder,
                 scopes, dirty, order>>
  /\ UNCHANGED rvars

\* The query reads the indices, copies, and its unique_lock unlocks on return.
QueryReturn(t) ==
  /\ pc[t] = "query"
  /\ mtx' = Unlocked(t)
  /\ pc' = [pc EXCEPT ![t] = "idle"]
  /\ ret' = NoCall
  /\ UNCHANGED <<id_idx, owner_idx, updatable_idx, loc_idx, lock_holder,
                 scopes, dirty, order>>
  /\ UNCHANGED rvars

Positions == 0..Cardinality({o \in Objects : Obj[o].updatable})

Next ==
  \E t \in Threads :
    \/ BeginUpdate(t)
    \/ EndUpdate(t)
    \/ \E object \in Objects : AddObject(t, object)
    \/ \E object \in Objects : RemoveObject(t, object)
    \/ \E position \in Positions : GetNextUpdatable(t, position)
    \/ QueryLock(t)
    \/ QueryReturn(t)

Spec == Init /\ [][Next]_vars

\* ---------------------------------------------------------------- queries
\* clamp(start_x, start_y, end_x, end_y): the four references after the call.
clamp(start_x, start_y, end_x, end_y) ==
  [start_x |-> IF start_x < this_start_x THEN this_start_x ELSE start_x,
   start_y |-> IF start_y < this_start_y THEN this_start_y ELSE start_y,
   end_x |-> IF end_x >= this_end_x THEN this_end_x - 1 ELSE end_x,
   end_y |-> IF end_y >= this_end_y THEN this_end_y - 1 ELSE end_y]

\* The cells the loops of get_in_area and is_area_empty visit:
\*   for (; x < end_x; x++) for (y = end_y - height; y < end_y; y++)
area_scan(x, y, width, height) ==
  LET c == clamp(x, y, x + width, y + height)
  IN (c.start_x..(c.end_x - 1)) \X ((c.end_y - height)..(c.end_y - 1))

\* get_in_area: the ids the result map is keyed by.
get_in_area(x, y, width, height) ==
  {Obj[current].id : current \in
     {o \in Objects : \E c \in area_scan(x, y, width, height) :
        get_loc(c[1], c[2]) = o /\ is_root_object(o, c[1], c[2])}}

is_area_empty(x, y, width, height) ==
  \A c \in area_scan(x, y, width, height) : get_loc(c[1], c[2]) = NULL

\* The cells the loops of is_location_in_los visit.
los_scan(x, y) ==
  LET c == clamp(x - this_los_radius, y - this_los_radius,
                 x + this_los_radius, y + this_los_radius)
  IN (c.start_x..(c.end_x - 1)) \X (c.start_y..(c.end_y - 1))

is_location_in_los(x, y, owner) ==
  \E c \in los_scan(x, y) :
    /\ get_loc(c[1], c[2]) # NULL
    /\ is_root_object(get_loc(c[1], c[2]), c[1], c[2])
    /\ Obj[get_loc(c[1], c[2])].owner = owner

\* Query arguments: one cell beyond Bounds on each side, sides up to MaxDim.
QCoords == (this_start_x - 1)..this_end_x
QDims == 1..MaxDim

\* A query is one call: its unique_lock is taken and released inside it.
GetInArea(t, x, y, w, h) ==
  /\ pc[t] = "idle"
  /\ CanLock(t)
  /\ ret' = [op |-> "get_in_area", thread |-> t, arg |-> <<x, y, w, h>>,
             val |-> get_in_area(x, y, w, h)]
  /\ UNCHANGED <<id_idx, owner_idx, updatable_idx, loc_idx, mtx, lock_holder,
                 scopes, pc, dirty, order>>
  /\ UNCHANGED rvars

IsAreaEmpty(t, x, y, w, h) ==
  /\ pc[t] = "idle"
  /\ CanLock(t)
  /\ ret' = [op |-> "is_area_empty", thread |-> t, arg |-> <<x, y, w, h>>,
             val |-> is_area_empty(x, y, w, h)]
  /\ UNCHANGED <<id_idx, owner_idx, updatable_idx, loc_idx, mtx, lock_holder,
                 scopes, pc, dirty, order>>
  /\ UNCHANGED rvars

IsLocationInLOS(t, x, y, owner) ==
  /\ pc[t] = "idle"
  /\ CanLock(t)
  /\ ret' = [op |-> "is_location_in_los", thread |-> t, arg |-> <<x, y, owner>>,
             val |-> is_location_in_los(x, y, owner)]
  /\ UNCHANGED <<id_idx, owner_idx, updatable_idx, loc_idx, mtx, lock_holder,
                 scopes, pc, dirty, order>>
  /\ UNCHANGED rvars

\* is_user_present(user_id): owner_idx.count(user_id) != 0
is_user_present(user_id) == user_id \in DOMAIN owner_idx

IsUserPresent(t, user_id) ==
  /\ pc[t] = "idle"
  /\ CanLock(t)
  /\ ret' = [op |-> "is_user_present", thread |-> t, arg |-> user_id,
             val |-> is_user_present(user_id)]
  /\ UNCHANGED <<id_idx, owner_idx, updatable_idx, loc_idx, mtx, lock_holder,
                 scopes, pc, dirty, order>>
  /\ UNCHANGED rvars

QueryOps ==
  {"get_in_area", "is_area_empty", "is_location_in_los", "is_user_present"}

\* One caller: update scopes of depth one, and the queries with their results.
\* A query changes no state, so every pair of a cache state and a query result
\* is reached by a query that follows an update call; the caller issues no
\* query right after a query.
NextQuery ==
  \/ scopes[1] = 0 /\ BeginUpdate(1)
  \/ EndUpdate(1)
  \/ \E object \in Objects : AddObject(1, object)
  \/ \E object \in Objects : RemoveObject(1, object)
  \/ /\ ret.op \notin QueryOps
     /\ \E x \in QCoords, y \in QCoords, w \in QDims, h \in QDims :
          GetInArea(1, x, y, w, h)
  \/ /\ ret.op \notin QueryOps
     /\ \E x \in QCoords, y \in QCoords, w \in QDims, h \in QDims :
          IsAreaEmpty(1, x, y, w, h)
  \/ /\ ret.op \notin QueryOps
     /\ \E x \in QCoords, y \in QCoords, owner \in Owners :
          IsLocationInLOS(1, x, y, owner)
  \/ /\ ret.op \notin QueryOps
     /\ \E user_id \in Owners : IsUserPresent(1, user_id)

SpecQuery == Init /\ [][NextQuery]_vars

\* ------------------------------------------------------------------ claims
NoScopeOpen == \A t \in Threads : scopes[t] = 0

\* The object occupies the grid: every cell of its rectangle maps to it.
Placed(o) ==
  Obj[o].positioned /\ \A c \in Rect(o) : get_loc(c[1], c[2]) = o

\* A cell of the object's rectangle is occupied by another object.
CoversOccupied(b) ==
  Obj[b].positioned /\ \E c \in Rect(b) : get_loc(c[1], c[2]) \notin {NULL, b}

InOwnerIdx(o) ==
  \E k \in DOMAIN owner_idx : \E i \in 1..Len(owner_idx[k]) : owner_idx[k][i] = o

\* C1: addObject of a positioned object whose rectangle covers a cell occupied
\* by another object fails, and the registry, the owner index, the updatable
\* list and every grid cell are what they were before the call.
C1_PlacementExclusivity ==
  [][\A t \in Threads, b \in Objects :
       (AddObject(t, b) /\ CoversOccupied(b))
         => (ret'.val = FALSE /\ idx' = idx)]_vars

\* C1 witness: the last call was an addObject refused over a cell that another
\* object occupies, and the refused object is in no index.
C1_Witness ==
  /\ ret.op = "add"
  /\ ret.val = FALSE
  /\ CoversOccupied(ret.arg)
  /\ ~Present(ret.arg)
  /\ ~InOwnerIdx(ret.arg)
  /\ \A c \in Cells : get_loc(c[1], c[2]) # ret.arg

\* C2: with no update scope open, an object is in the registry iff it is in
\* the owner index under its owner (owner 0: in no owner index entry) and
\* every cell of its rectangle maps to it; every owner index entry and every
\* non-empty cell refers to an object of the registry.
C2_IndexConsistency ==
  NoScopeOpen =>
    /\ \A o \in Objects :
         Present(o) =>
           /\ Obj[o].owner # 0 =>
                \E i \in 1..Len(OwnerList(Obj[o].owner)) :
                  OwnerList(Obj[o].owner)[i] = o
           /\ Obj[o].positioned => Placed(o)
    /\ \A o \in Objects : Obj[o].owner = 0 => ~InOwnerIdx(o)
    /\ \A o \in Objects : InOwnerIdx(o) => Present(o)
    /\ \A c \in Cells : get_loc(c[1], c[2]) # NULL => Present(get_loc(c[1], c[2]))

QRect(x, y, w, h) == (x..(x + w - 1)) \X (y..(y + h - 1))
InBounds(x, y, w, h) ==
  x >= this_start_x /\ y >= this_start_y /\ x + w <= this_end_x /\ y + h <= this_end_y

Max(a, b) == IF a > b THEN a ELSE b
Min(a, b) == IF a < b THEN a ELSE b

\* C4: get_in_area of a rectangle that extends past Bounds returns what
\* get_in_area returns for the rectangle clamped per axis into Bounds (lower
\* edge raised to start, upper edge lowered to end - 1), and scans no cell
\* outside the requested rectangle.
C4_ClampingCorrectness ==
  (ret.op = "get_in_area" /\ ~InBounds(ret.arg[1], ret.arg[2], ret.arg[3], ret.arg[4]))
    => LET x == ret.arg[1]
           y == ret.arg[2]
           w == ret.arg[3]
           h == ret.arg[4]
           cx == Max(x, this_start_x)
           cy == Max(y, this_start_y)
           cw == Min(x + w - 1, this_end_x - 1) - cx + 1
           ch == Min(y + h - 1, this_end_y - 1) - cy + 1
       IN /\ ret.val = IF cw > 0 /\ ch > 0 THEN get_in_area(cx, cy, cw, ch) ELSE {}
          /\ area_scan(x, y, w, h) \subseteq QRect(x, y, w, h)

\* C5: get_in_area of a rectangle inside Bounds returns every placed object
\* whose rectangle the query rectangle fully contains (the result is keyed by
\* id, so once).
C5_RootCellUniqueness ==
  (ret.op = "get_in_area" /\ InBounds(ret.arg[1], ret.arg[2], ret.arg[3], ret.arg[4]))
    => \A o \in Objects :
         (Placed(o) /\ Rect(o) \subseteq QRect(ret.arg[1], ret.arg[2], ret.arg[3], ret.arg[4]))
           => Obj[o].id \in ret.val

\* C6: is_area_empty is true iff no cell of the rectangle that lies inside
\* Bounds is occupied.
C6_IsAreaEmpty ==
  ret.op = "is_area_empty"
    => (ret.val <=>
          \A c \in QRect(ret.arg[1], ret.arg[2], ret.arg[3], ret.arg[4]) \cap Cells :
            get_loc(c[1], c[2]) = NULL)

Abs(a) == IF a < 0 THEN -a ELSE a

\* C7: is_location_in_los is true iff some object of the owner has its root
\* cell inside Bounds within los_radius of (x, y) on both axes.
C7_IsLocationInLOS ==
  ret.op = "is_location_in_los"
    => (ret.val <=>
          \E c \in Cells :
            /\ get_loc(c[1], c[2]) # NULL
            /\ is_root_object(get_loc(c[1], c[2]), c[1], c[2])
            /\ Obj[get_loc(c[1], c[2])].owner = ret.arg[3]
            /\ Abs(c[1] - ret.arg[1]) <= this_los_radius
            /\ Abs(c[2] - ret.arg[2]) <= this_los_radius)

\* C8: get_next_updatable called by thread T raises the synchronization
\* exception iff T holds no open update scope.
C8_LockMisuseDetection ==
  ret.op = "get_next_updatable"
    => (ret.val = THROW <=> scopes[ret.thread] = 0)

\* C9: get_next_updatable(index) called by a thread holding an update scope
\* returns the index-th updatable object held, in the order they were added,
\* and none at or beyond their count.
C9_UpdatableOrder ==
  (ret.op = "get_next_updatable" /\ scopes[ret.thread] > 0)
    => ret.val = IF ret.arg < Len(order) THEN order[ret.arg + 1] ELSE NULL

\* The times thread t holds the recursive mutex.
Holds(t) == IF mtx.owner = t THEN mtx.count ELSE 0

\* C10: while a query of thread t holds the mutex no other thread is inside
\* an update scope and, unless t queries from inside its own scope, no batch
\* is half applied; a thread outside a query holds the mutex exactly once per
\* open scope.
C10_UpdateScopeAtomicity ==
  \A t \in Threads :
    /\ pc[t] = "query" =>
         /\ \A u \in Threads \ {t} : scopes[u] = 0 /\ pc[u] = "idle"
         /\ scopes[t] = 0 => ~dirty
         /\ Holds(t) = scopes[t] + 1
    /\ pc[t] = "idle" => Holds(t) = scopes[t]

\* C10 witness: a query holds the mutex over a cache that a closed batch has
\* filled, and the querying thread has no scope of its own.
C10_Witness ==
  \E t \in Threads :
    /\ pc[t] = "query"
    /\ scopes[t] = 0
    /\ DOMAIN id_idx # {}


\* ================================================================ the router
\* What an operation on undefined behaviour can do: go on as if nothing had
\* happened, go on with a damaged container, or end the process.
UBOutcomes == {"benign", "corrupt", "crash"}

\* result_codes written to a response; "business" is any handler-defined code.
ResultCodes == {"success", "no_response", "business"}

\* uint16 type = (category << 8) | method
Categories == 0..1
Methods == 0..0
request_type(category, method) == ((category * 256) + method) % 65536

\* The request types the application registered a handler for: one for
\* clients that have logged in, one for those that have not.
authenticated_handlers == {request_type(1, 0)}
unauthenticated_handlers == {request_type(0, 0)}

\* What handler.process(authenticated_id) does: it throws
\* sql::synchronization_exception or returns a result code, and leaves an
\* identity in authenticated_id either way.
Procs ==
  [throws : {TRUE}, result : {"success"}, id : 0..NumIds]
    \cup [throws : {FALSE}, result : ResultCodes, id : 0..NumIds]

ClientList(id) ==
  IF id \in DOMAIN authenticated_clients THEN authenticated_clients[id] ELSE <<>>

\* The index and the stored identities after a call that changes nothing.
NoEffect ==
  [index |-> authenticated_clients, state |-> conn_state,
   fatal |-> FALSE, ub |-> FALSE, crashed |-> FALSE]

\* add_client(id, conn)
add_client(id, conn) ==
  IF id = 0 THEN NoEffect
  ELSE [NoEffect EXCEPT
          !.state = [conn_state EXCEPT ![conn] = id],
          !.index = MapPut(authenticated_clients, id, Append(ClientList(id), conn))]

\* if (list.size() == 0) authenticated_clients.erase(id)
Pruned(id, list) ==
  IF Len(list) = 0 THEN MapErase(authenticated_clients, id)
  ELSE MapPut(authenticated_clients, id, list)

\* del_client(id, conn): fatal is broker_node_down_exception.  find() returns
\* list.end() when conn is not in the list, and list.erase(list.end()) is
\* undefined: u is what it does then ("corrupt": the vector's last element is
\* destroyed).  conn->state is not written.
del_client(id, conn, u) ==
  IF id = 0 THEN NoEffect
  ELSE IF id = area_id THEN [NoEffect EXCEPT !.fatal = TRUE]
  ELSE IF id \notin DOMAIN authenticated_clients THEN NoEffect
  ELSE LET list == authenticated_clients[id]
           j == Find(list, conn)
       IN IF j # 0 THEN [NoEffect EXCEPT !.index = Pruned(id, EraseAt(list, j))]
          ELSE IF u = "crash" THEN [NoEffect EXCEPT !.ub = TRUE, !.crashed = TRUE]
          ELSE IF u = "corrupt"
               THEN [NoEffect EXCEPT
                       !.ub = TRUE,
                       !.index = Pruned(id, SubSeq(list, 1, Len(list) - 1))]
          ELSE [NoEffect EXCEPT !.ub = TRUE]

\* send(receipient_id, notification): the messages enqueued, in order.
send(receipient_id, notification) ==
  [i \in 1..Len(ClientList(receipient_id)) |->
     [conn |-> ClientList(receipient_id)[i], data |-> notification]]

\* The outcome of one on_request call: what it returns and writes, decoded is
\* "none", "past_end" or "ok", and after is the index and the identities.
Outcome(result, response, decoded, invoked, conflict, start_id, final_id, after) ==
  [result |-> result, response |-> response, decoded |-> decoded,
   invoked |-> invoked, conflict |-> conflict,
   table |-> IF start_id # 0 THEN "authenticated" ELSE "unauthenticated",
   start_id |-> start_id, final_id |-> final_id, after |-> after]

\* on_request with the catch of the synchronization exception placed after
\* the identity update.
on_request_late_catch(client, category, method, decodes, proc, u) ==
  LET start_id == conn_state[client]
      type == request_type(category, method)
      handlers == IF start_id # 0 THEN authenticated_handlers
                  ELSE unauthenticated_handlers
      after == IF proc.id = start_id THEN NoEffect
               ELSE IF proc.id # 0 THEN add_client(proc.id, client)
               ELSE del_client(start_id, client, u)
  IN IF type \notin handlers
     THEN Outcome("success", <<"invalid_request_type">>, "none", FALSE, FALSE,
                  start_id, start_id, NoEffect)
     ELSE IF ~decodes
     THEN Outcome("success", <<"invalid_parameters">>, "past_end", FALSE, FALSE,
                  start_id, start_id, NoEffect)
     ELSE IF proc.throws
     THEN Outcome("retry_later", <<>>, "ok", TRUE, TRUE, start_id, proc.id, after)
     ELSE IF proc.result = "no_response"
     THEN Outcome("no_response", <<"no_response">>, "ok", TRUE, FALSE,
                  start_id, proc.id, NoEffect)
     ELSE Outcome(IF after.fatal THEN "fatal" ELSE "success",
                  IF proc.result = "success" THEN <<"success", "payload">>
                  ELSE <<proc.result>>,
                  "ok", TRUE, FALSE, start_id, proc.id, after)

\* on_request(client, worker_num, category, method, parameters, response):
\* decodes tells whether deserialize stays inside the parameters, proc is what
\* the handler's process does.  result "fatal" is the exception del_client
\* throws through on_request.
on_request(client, category, method, decodes, proc, u) ==
  LET start_id == conn_state[client]
      type == request_type(category, method)
      handlers == IF start_id # 0 THEN authenticated_handlers
                  ELSE unauthenticated_handlers
      after == IF proc.id = start_id THEN NoEffect
               ELSE IF proc.id # 0 THEN add_client(proc.id, client)
               ELSE del_client(start_id, client, u)
  IN IF type \notin handlers
     THEN Outcome("success", <<"invalid_request_type">>, "none", FALSE, FALSE,
                  start_id, start_id, NoEffect)
     ELSE IF ~decodes
     THEN Outcome("success", <<"invalid_parameters">>, "past_end", FALSE, FALSE,
                  start_id, start_id, NoEffect)
     ELSE IF proc.throws
     THEN Outcome("retry_later", <<>>, "ok", TRUE, TRUE, start_id, proc.id, NoEffect)
     ELSE IF proc.result = "no_response"
     THEN Outcome("no_response", <<"no_response">>, "ok", TRUE, FALSE,
                  start_id, proc.id, NoEffect)
     ELSE Outcome(IF after.fatal THEN "fatal" ELSE "success",
                  IF proc.result = "success" THEN <<"success", "payload">>
                  ELSE <<proc.result>>,
                  "ok", TRUE, FALSE, start_id, proc.id, after)

\* NodeInstance::onRequest: created is the resultCode handlerCreator leaves,
\* commits tells whether commitTransaction returns.  resultCode is still
\* SUCCESS when deserialize throws.
onRequest(created, decodes, processed, commits) ==
  LET resultCode == IF commits THEN processed ELSE "server_error"
  IN IF created # "success"
     THEN [response |-> <<created>>, decoded |-> "none", invoked |-> FALSE]
     ELSE IF ~decodes
     THEN [response |-> <<"success">>, decoded |-> "past_end", invoked |-> FALSE]
     ELSE [response |-> IF resultCode = "success" THEN <<"success", "payload">>
                        ELSE <<resultCode>>,
           decoded |-> "ok", invoked |-> TRUE]

\* --------------------------------------------------------- router actions
\* The lists stay within MaxClientList: a call that would grow one past it is
\* left out.
WithinLists(index) ==
  \A id \in DOMAIN index :
    Len(index[id]) <= MaxClientList \/ index[id] = ClientList(id)

\* start(): server.start() lets the workers serve the clients' connections
\* (on_connect is empty: a connection is there with state 0); with a broker,
\* its connection is adopted, tagged with area_id and pushed onto the list of
\* area_id, and the hello message goes to it.
Start ==
  /\ ~crashed
  /\ started = "no"
  /\ started' = "done"
  /\ status' = [c \in AllConns |->
                  IF c \in Conns \/ area_id # 0 THEN "live" ELSE status[c]]
  /\ conn_state' = IF area_id # 0
                   THEN [conn_state EXCEPT ![BrokerConn] = area_id]
                   ELSE conn_state
  /\ authenticated_clients' =
       IF area_id # 0
       THEN MapPut(authenticated_clients, area_id,
                   Append(ClientList(area_id), BrokerConn))
       ELSE authenticated_clients
  /\ ret' = [op |-> "start", thread |-> MainThread, arg |-> <<>>,
             val |-> IF area_id # 0
                     THEN <<[conn |-> BrokerConn, data |-> area_id]>>
                     ELSE <<>>]
  /\ UNCHANGED <<area_id, clients_lock, work, crashed>>
  /\ UNCHANGED cvars

\* on_disconnect(client): del_client(client->state, client).
Disconnect(client, u) ==
  /\ ~crashed
  /\ status[client] = "live"
  /\ LET after == del_client(conn_state[client], client, u)
     IN /\ authenticated_clients' = after.index
        /\ conn_state' = after.state
        /\ crashed' = after.crashed
        /\ ret' = [op |-> "on_disconnect", thread |-> NoThread, arg |-> client,
                   val |-> [fatal |-> after.fatal, ub |-> after.ub,
                            start_id |-> conn_state[client],
                            changed |-> after.index # authenticated_clients]]
  /\ status' = [status EXCEPT ![client] = "closed"]
  /\ UNCHANGED <<area_id, started, clients_lock, work>>
  /\ UNCHANGED cvars

\* What a request leaves in ret.
Report(r) ==
  [result |-> r.result, response |-> r.response, decoded |-> r.decoded,
   invoked |-> r.invoked, conflict |-> r.conflict, table |-> r.table,
   start_id |-> r.start_id,
   final_id |-> IF r.conflict THEN r.start_id ELSE r.final_id,
   fatal |-> r.after.fatal, ub |-> r.after.ub,
   changed |-> (r.after.index # authenticated_clients
                \/ r.after.state # conn_state \/ r.after.crashed)]

\* A call that left every member as it was.  Such calls lead from a state to
\* itself, so every pair of a state and a call's result is reached by a call
\* that follows one that changed a member.
Idle(call) ==
  \/ call.op \in {"send", "onRequest"}
  \/ call.op = "on_request" /\ ~call.val.changed

\* The inputs on_request does not look at are kept at one value: the payload
\* of a request without handler, the handler's behaviour when it is not run,
\* and what undefined behaviour does when there is none.
Known(client, category, method) ==
  request_type(category, method) \in
    (IF conn_state[client] # 0 THEN authenticated_handlers
     ELSE unauthenticated_handlers)
Payloads(client, category, method) ==
  IF Known(client, category, method) THEN BOOLEAN ELSE {TRUE}
Handlings(client, category, method, decodes) ==
  IF Known(client, category, method) /\ decodes THEN Procs
  ELSE {[throws |-> TRUE, result |-> "success", id |-> 0]}
Damages(after) == IF after.ub THEN UBOutcomes ELSE {"benign"}

\* One request served by on_request.
Request(client, category, method, decodes, proc, u) ==
  /\ ~crashed
  /\ status[client] = "live"
  /\ LET r == on_request(client, category, method, decodes, proc, u)
     IN /\ WithinLists(r.after.index)
        /\ Idle(ret) => Report(r).changed
        /\ authenticated_clients' = r.after.index
        /\ conn_state' = r.after.state
        /\ crashed' = r.after.crashed
        /\ ret' = [op |-> "on_request", thread |-> NoThread, arg |-> client,
                   val |-> Report(r)]
  /\ UNCHANGED <<area_id, started, status, clients_lock, work>>
  /\ UNCHANGED cvars

\* send(receipient_id, notification) called by the application.
Send(receipient_id) ==
  /\ ~crashed
  /\ started # "no"
  /\ ret' = [op |-> "send", thread |-> NoThread, arg |-> receipient_id,
             val |-> send(receipient_id, "notification")]
  /\ UNCHANGED rvars
  /\ UNCHANGED cvars

\* The result codes of the game server's handlers.
NodeCodes == {"success", "business"}

\* One request served by NodeInstance::onRequest.
NodeRequest(created, decodes, processed, commits) ==
  /\ ~crashed
  /\ ret' = [op |-> "onRequest", thread |-> NoThread,
             arg |-> <<created, decodes, processed, commits>>,
             val |-> onRequest(created, decodes, processed, commits)]
  /\ UNCHANGED rvars
  /\ UNCHANGED cvars

InitRouter ==
  /\ InitCache
  /\ area_id \in {0, AreaId}
  /\ InitNode

NextRouter ==
  \/ Start
  \/ \E client \in AllConns :
       \E u \in Damages(del_client(conn_state[client], client, "benign")) :
         Disconnect(client, u)
  \/ \E client \in AllConns, category \in Categories, method \in Methods :
       \E decodes \in Payloads(client, category, method) :
         \E proc \in Handlings(client, category, method, decodes) :
           \E u \in Damages(on_request(client, category, method, decodes,
                                       proc, "benign").after) :
             Request(client, category, method, decodes, proc, u)
  \/ /\ ~Idle(ret)
     /\ \E receipient_id \in 0..NumIds : Send(receipient_id)
  \/ /\ ~Idle(ret)
     /\ \E created \in {"success", "invalid_request_type"}, decodes \in BOOLEAN,
           processed \in NodeCodes, commits \in BOOLEAN :
          NodeRequest(created, decodes, processed, commits)

SpecRouter == InitRouter /\ [][NextRouter]_vars

\* ------------------------------------------------- the index and its lock
\* The steps of the threads that touch authenticated_clients: a worker inside
\* add_client, del_client or send holds clients_lock from its unique_lock to
\* the return; the caller of start() pushes the broker's connection without
\* taking it.  Two accesses that overlap are a data race: raced marks both.
InAccess(t) == work[t].pc = "access"
Accessing == {t \in Threads \cup {MainThread} : InAccess(t)}

\* Every thread inside an access has raced once a second one comes in.
Overlapped(t, entry) ==
  [s \in Threads \cup {MainThread} |->
     IF s = t THEN [entry EXCEPT !.raced = (Accessing \ {t}) # {}]
     ELSE IF InAccess(s) THEN [work[s] EXCEPT !.raced = TRUE]
     ELSE work[s]]

\* start(), line 26: server.start().
StartServer ==
  /\ ~crashed
  /\ started = "no"
  /\ started' = "server"
  /\ status' = [c \in AllConns |-> IF c \in Conns THEN "live" ELSE status[c]]
  /\ ret' = [op |-> "server_start", thread |-> MainThread, arg |-> <<>>,
             val |-> NULL]
  /\ UNCHANGED <<area_id, authenticated_clients, conn_state, clients_lock,
                 work, crashed>>
  /\ UNCHANGED cvars

\* start(), lines 29-31: the broker's connection is adopted and tagged, and
\* authenticated_clients[area_id] is entered; clients_lock is not taken.
StartBrokerBegin ==
  /\ ~crashed
  /\ started = "server"
  /\ area_id # 0
  /\ work[MainThread].pc = "idle"
  /\ status' = [status EXCEPT ![BrokerConn] = "live"]
  /\ conn_state' = [conn_state EXCEPT ![BrokerConn] = area_id]
  /\ work' = Overlapped(MainThread,
                        [pc |-> "access", op |-> "start", id |-> area_id,
                         conn |-> BrokerConn, raced |-> FALSE])
  /\ ret' = [op |-> "start_access", thread |-> MainThread, arg |-> <<>>,
             val |-> NULL]
  /\ UNCHANGED <<area_id, started, authenticated_clients, clients_lock, crashed>>
  /\ UNCHANGED cvars

\* start(), lines 31-33: the push_back is done and the hello message sent.  A
\* push_back that raced is undefined: u is what became of it.
StartBrokerEnd(u) ==
  /\ ~crashed
  /\ work[MainThread].pc = "access"
  /\ started' = "done"
  /\ authenticated_clients' =
       IF u = "benign"
       THEN MapPut(authenticated_clients, area_id,
                   Append(ClientList(area_id), BrokerConn))
       ELSE authenticated_clients
  /\ crashed' = (u = "crash")
  /\ work' = [work EXCEPT ![MainThread] = NoWork]
  /\ ret' = [op |-> "start", thread |-> MainThread, arg |-> <<>>,
             val |-> <<[conn |-> BrokerConn, data |-> area_id]>>]
  /\ UNCHANGED <<area_id, conn_state, status, clients_lock>>
  /\ UNCHANGED cvars

\* The calls on_request and the application make.
IndexCalls == {"add_client", "del_client", "send"}

\* add_client(id, conn) is called for a changed non-zero identity (line 132),
\* del_client(id, conn) with the stored identity (line 135) and passes lines
\* 47-51, send(id, ...) for any id.
Called(op, id, conn) ==
  \/ op = "add_client" /\ conn # NULL /\ id # 0 /\ id # conn_state[conn]
  \/ /\ op = "del_client" /\ conn # NULL
     /\ id # 0 /\ id # area_id /\ id = conn_state[conn]
  \/ op = "send" /\ conn = NULL

\* unique_lock<mutex> lck(clients_lock): the worker has the lock and is at the
\* index.
Enter(t, op, id, conn) ==
  /\ ~crashed
  /\ started # "no"
  /\ work[t].pc = "idle"
  /\ Called(op, id, conn)
  /\ clients_lock = NoThread
  /\ clients_lock' = t
  /\ work' = Overlapped(t, [pc |-> "access", op |-> op, id |-> id,
                            conn |-> conn, raced |-> FALSE])
  /\ ret' = [op |-> "lock", thread |-> t, arg |-> <<op, id, conn>>, val |-> NULL]
  /\ UNCHANGED <<area_id, started, authenticated_clients, conn_state, status,
                 crashed>>
  /\ UNCHANGED cvars

\* What the call of the worker does to the index.
Effect(t, u) ==
  IF work[t].op = "add_client" THEN add_client(work[t].id, work[t].conn)
  ELSE IF work[t].op = "del_client"
  THEN del_client(work[t].id, work[t].conn, u)
  ELSE NoEffect

\* The call is done and returns: lck unlocks.  An access that raced, or an
\* erase(end()), is undefined: u is what became of it.
Leave(t, u) ==
  /\ ~crashed
  /\ t \in Threads
  /\ work[t].pc = "access"
  /\ LET after == Effect(t, u)
         lost == work[t].raced /\ u = "corrupt"
     IN /\ WithinLists(after.index)
        /\ u # "benign" => (work[t].raced \/ after.ub)
        /\ authenticated_clients' = IF lost THEN authenticated_clients
                                    ELSE after.index
        /\ conn_state' = after.state
        /\ crashed' = ((work[t].raced \/ after.ub) /\ u = "crash")
        /\ ret' = [op |-> work[t].op, thread |-> t,
                   arg |-> <<work[t].id, work[t].conn>>,
                   val |-> IF work[t].op = "send"
                           THEN send(work[t].id, "notification")
                           ELSE <<>>]
  /\ clients_lock' = NoThread
  /\ work' = [work EXCEPT ![t] = NoWork]
  /\ UNCHANGED <<area_id, started, status>>
  /\ UNCHANGED cvars

\* A node constructed with a broker.
InitLock ==
  /\ InitCache
  /\ area_id = AreaId
  /\ InitNode

NextLock ==
  \/ StartServer
  \/ StartBrokerBegin
  \/ \E u \in (IF work[MainThread].raced THEN UBOutcomes ELSE {"benign"}) :
       StartBrokerEnd(u)
  \/ \E t \in Threads, op \in IndexCalls, id \in 0..NumIds,
        conn \in Conns \cup {NULL} :
       Enter(t, op, id, conn)
  \/ \E t \in Threads, u \in UBOutcomes : Leave(t, u)

SpecLock == InitLock /\ [][NextLock]_vars

\* ------------------------------------------------------- the router's claims
\* The connection is in the list the index holds for id.
Registered(conn, id) ==
  \E i \in 1..Len(ClientList(id)) : ClientList(id)[i] = conn

\* The connections send(id, ...) enqueues a message to.
Targets(id) ==
  {send(id, "notification")[i].conn : i \in 1..Len(send(id, "notification"))}

\* on_request has returned to the server after running the handler's process
\* to its end.
Completed(call) ==
  /\ call.op = "on_request"
  /\ call.val.invoked
  /\ ~call.val.conflict
  /\ call.val.result \in {"success", "no_response"}

\* C11: once a request on an unauthenticated connection whose handler set the
\* identity to a non-zero id has completed, send(id, ...) enqueues to that
\* connection; once a request whose handler set the identity from id back to 0
\* has completed, send(id, ...) no longer enqueues to it.
C11_AuthenticationTransition ==
  Completed(ret) =>
    /\ (ret.val.start_id = 0 /\ ret.val.final_id # 0)
         => ret.arg \in Targets(ret.val.final_id)
    /\ (ret.val.start_id # 0 /\ ret.val.final_id = 0)
         => ret.arg \notin Targets(ret.val.start_id)

\* C12: a connection whose handler cleared the identity has stored identity 0
\* afterwards, and a live connection's stored identity is id # 0 exactly when
\* the index holds the connection under id.
C12_StoredIdentity ==
  /\ (Completed(ret) /\ ret.val.result = "success"
        /\ ret.val.start_id # 0 /\ ret.val.final_id = 0)
       => conn_state[ret.arg] = 0
  /\ \A c \in AllConns, id \in Ids :
       status[c] = "live" => (conn_state[c] = id <=> Registered(c, id))

\* C13: when the handler's process returned normally having changed the
\* identity from 0 to id or from id to 0, the index holds the connection under
\* id, or no longer holds it, when on_request returns, whatever the result
\* code.
C13_IndexFollowsIdentity ==
  Completed(ret) =>
    /\ (ret.val.start_id = 0 /\ ret.val.final_id # 0)
         => Registered(ret.arg, ret.val.final_id)
    /\ (ret.val.start_id # 0 /\ ret.val.final_id = 0)
         => ~Registered(ret.arg, ret.val.start_id)

\* C14: when the handler's process signals a synchronization conflict,
\* on_request returns retry_later, has written nothing to the response, and
\* leaves the index and every stored identity as they were.
C14_RetryLaterChangesNothing ==
  [][(ret'.op = "on_request" /\ ret'.val.conflict)
       => /\ ret'.val.result = "retry_later"
          /\ ret'.val.response = <<>>
          /\ UNCHANGED <<authenticated_clients, conn_state>>]_vars

\* A conflict on a request of a registered connection, with another
\* connection registered too.
C14_Witness ==
  /\ ret.op = "on_request"
  /\ ret.val.conflict
  /\ ret.val.result = "retry_later"
  /\ ret.val.start_id # 0
  /\ Registered(ret.arg, ret.val.start_id)
  /\ \E c \in Conns \ {ret.arg} : conn_state[c] # 0

\* C15: when decoding runs past the supplied bytes, the response is the
\* invalid_parameters code alone, the handler's process is not invoked and the
\* index is unchanged, in processor_node::on_request and in
\* NodeInstance::onRequest.
C15_DecodePastEnd ==
  /\ (ret.op = "on_request" /\ ret.val.decoded = "past_end")
       => /\ ret.val.response = <<"invalid_parameters">>
          /\ ~ret.val.invoked
          /\ ~ret.val.changed
  /\ (ret.op = "onRequest" /\ ret.val.decoded = "past_end")
       => /\ ret.val.response = <<"invalid_parameters">>
          /\ ~ret.val.invoked

\* C16: on a node with a broker, after start() the broker's connection is
\* registered under area_id in every state; a del_client with id = area_id
\* raises the fatal condition and leaves the index unchanged; and the fatal
\* condition is raised only for the broker's connection.
C16_BrokerRegistration ==
  /\ (area_id # 0 /\ started = "done") => Registered(BrokerConn, area_id)
  /\ (area_id # 0 /\ ret.op = "on_disconnect" /\ ret.val.start_id = area_id)
       => (ret.val.fatal /\ ~ret.val.changed)
  /\ (ret.op \in {"on_disconnect", "on_request"} /\ ret.val.fatal)
       => ret.arg = BrokerConn

\* How often the index holds the connection, over all lists.
Occurrences(conn) ==
  Cardinality({e \in (DOMAIN authenticated_clients) \X (1..(MaxClientList + 1)) :
                 /\ e[2] <= Len(authenticated_clients[e[1]])
                 /\ authenticated_clients[e[1]][e[2]] = conn})

\* C18: in every state each connection is held at most once by the whole
\* index: under at most one identity and once in that identity's list.
C18_AtMostOnce == \A c \in AllConns : Occurrences(c) <= 1

\* C19: whenever del_client reaches the erase step, the connection is an
\* element of the list it erases from.
C19_EraseFindsConnection ==
  ret.op \in {"on_disconnect", "on_request"} => ~ret.val.ub

\* C17: every thread inside a read or write of the index holds clients_lock,
\* so no two threads are inside one at the same time; start()'s push of the
\* broker's connection included.
C17_IndexUnderLock ==
  /\ \A t \in Threads \cup {MainThread} : InAccess(t) => clients_lock = t
  /\ Cardinality(Accessing) <= 1

\* C20: is_user_present(owner) returns true exactly when the registry holds
\* an object of that owner.
C20_IsOwnerPresent ==
  ret.op = "is_user_present"
    => (ret.val <=> \E o \in Objects : Present(o) /\ Obj[o].owner = ret.arg)
============================================================================
